---- MODULE Spec2Model ----
(***************************************************************************)
(* react-notification-provider: the keyed notification queue               *)
(* (createImmutableQueue, createMockImmutableQueue) and the useQueue hook  *)
(* that holds one queue in a React state cell.                             *)
(*                                                                         *)
(* JavaScript arrays and queue objects have identity, so both live in a    *)
(* heap: `arrays` maps an address to an array's content, `objs` maps an    *)
(* object reference to the queue object literal created there.             *)
(***************************************************************************)
EXTENDS Integers, Sequences, FiniteSets, TLC

\* The ids and the payloads the callers use.
Ids == {"a", "b", "c"}
Datas == {"x", "y"}
\* The ids the callers of the hook use.
HookIds == {"a", "b"}
NoId == "-"
NoData == "-"

\* Queue objects one program creates in the immutable-queue scenario.
MaxObjs == 3
\* Calls of add/remove/removeAll one program makes on the hook.
MaxCalls == 3
\* Queue objects one program creates in the scenario with removal callbacks.
MaxSnapshots == 4
\* Length of the array a caller passes to createImmutableQueue(entries).
MaxGiven == 2
\* Clicks on the example's buttons, and the milliseconds in which they fall.
MaxClicks == 3
MaxClock == 2
\* Calls made on a queue that starts empty.
MaxOps == 4
\* Events handled by a binding whose callbacks are followed.
MaxEvents == 4
\* Renders of the Provider caused by its parent.
MaxRenders == 1

VARIABLES
  mode,        \* which program runs: "immutable", "mock" (the queue used directly),
               \* "hook" (a Provider and its consumers), "outside" (a component
               \* with no Provider) or "snapshots" (queues with removal callbacks)
  handle,      \* the `entries` array the caller read from the first queue when it was created
  arrays,      \* heap of arrays: address -> sequence of QueuedItem
  objs,        \* heap of queue objects: reference -> [kind, entries (an address)]
  last,        \* the operation that ran last: [op, recv, id, data, ret]
  prevArrays,  \* `arrays` as it was when that operation started
  held,        \* useQueue: the queue object in the state cell (0: no hook)
  pending,     \* useQueue: the updaters passed to setQueue and not run yet
  flushing,    \* useQueue: React is running the pending updaters
  batch,       \* useQueue: updaters run by the current (or the last) render
  rendered,    \* useQueue: the queue object the last render read the state as
  supplied,    \* Provider: the queue object passed as its queue prop (0: none)
  published,   \* Provider: the value useQueue returned to the last render
  shown,       \* consumers: the entries they were last rendered with
  access,      \* the outcome of a component's last useNotificationQueue() call
  registry,    \* removal callbacks: id -> callback (0: none)
  fired,       \* removal callbacks invoked so far, in order
  prevRegistry, prevFired, \* registry and fired when the last operation started
  nextCb,      \* the next callback a caller creates
  lastCb,      \* the callback the last operation was given (0: none)
  replaced,    \* callbacks whose registration a later add has overwritten
  nCalls,      \* calls made on the hook so far
  expected,    \* the calls so far (on the hook, on the mock queue) applied, in
               \* order, by createImmutableQueue to the initial entries
  snapshotCallbacks, \* per queue object, the callbacks it carries: id -> callback
  script,      \* a scripted program: [data (its payloads), todo (the calls it has still to make)]
  timers,      \* example app: the timers started, [id, at, seen, done], by timeout handle
  clock,       \* example app: Date.now(), in milliseconds
  clicks,      \* example app: clicks handled so far
  born,        \* history: per id, the number of the add that brought it in; 0 when absent
  ops,         \* history: calls made so far
  nRenders,    \* renders of the Provider caused by its parent
  instances,   \* queues made separately: per instance, [obj (its queue object now), expected]
  clearedAt    \* registry history: at each removeAll() call, the number of callbacks passed to add so far

hookVars == <<held, pending, flushing, batch, rendered, supplied, published, shown, nCalls>>
cbVars == <<registry, fired, prevRegistry, prevFired, nextCb, lastCb, replaced>>
otherVars == <<script, timers, clock, clicks, born, ops, nRenders, instances, clearedAt>>
vars == <<mode, handle, arrays, objs, last, prevArrays, hookVars, cbVars, access,
          expected, snapshotCallbacks, otherVars>>

QueuedItem == [id : Ids, data : Datas]

\* Sequences of QueuedItem with pairwise distinct ids.
HasUniqueIds(s) == \A i, j \in 1..Len(s) : s[i].id = s[j].id => i = j

UniqueSeqs ==
  UNION {{s \in [1..n -> QueuedItem] : HasUniqueIds(s)} : n \in 0..Cardinality(Ids)}

----------------------------------------------------------------------------
(* Array.prototype helpers, with JavaScript's 0-based indices.             *)

\* entries.findIndex(n => n.id === id): the first match, or -1.
findIndex(entries, id) ==
  LET hits == {i \in 1..Len(entries) : entries[i].id = id}
  IN  IF hits = {} THEN -1
      ELSE (CHOOSE i \in hits : \A j \in hits : i <= j) - 1

\* copy.splice(start, 0, item): inserts, deletes nothing.
splice_Insert(copy, start, item) ==
  SubSeq(copy, 1, start) \o <<item>> \o SubSeq(copy, start + 1, Len(copy))

\* copy.splice(start, 1, item) on the content of copy.
splice(copy, start, item) ==
  [i \in 1..Len(copy) |-> IF i = start + 1 THEN item ELSE copy[i]]

\* entries.filter(n => n.id !== id).
filter(entries, id) == SelectSeq(entries, LAMBDA n : n.id # id)

----------------------------------------------------------------------------
(* createImmutableQueue(entries): each operation returns the heap after    *)
(* the call; the array of the returned queue is the last address.          *)

add_MoveToEnd(arrs, e, id, data) ==
  Append(arrs, Append(filter(arrs[e], id), [id |-> id, data |-> data]))

add_Prepend(arrs, e, id, data) ==
  LET matchIndex == findIndex(arrs[e], id)
      item == [id |-> id, data |-> data]
  IN  IF matchIndex > -1
      THEN Append(arrs, splice(arrs[e], matchIndex, item))
      ELSE Append(arrs, <<item>> \o arrs[e])

add_AlwaysPush(arrs, e, id, data) ==
  Append(arrs, Append(arrs[e], [id |-> id, data |-> data]))

\* An add that, for an absent id, overwrites the last entry instead of pushing.
add_ReplaceLast(arrs, e, id, data) ==
  LET matchIndex == findIndex(arrs[e], id)
      item == [id |-> id, data |-> data]
  IN  IF matchIndex > -1
      THEN Append(arrs, splice(arrs[e], matchIndex, item))
      ELSE IF arrs[e] = <<>>
           THEN Append(arrs, <<item>>)
           ELSE Append(arrs, splice(arrs[e], Len(arrs[e]) - 1, item))

add_BeforeLast(arrs, e, id, data) ==
  LET matchIndex == findIndex(arrs[e], id)
      item == [id |-> id, data |-> data]
      n == IF arrs[e] = <<>> THEN 0 ELSE Len(arrs[e]) - 1
  IN  IF matchIndex > -1
      THEN Append(arrs, splice(arrs[e], matchIndex, item))
      ELSE Append(arrs, SubSeq(arrs[e], 1, n) \o <<item>> \o SubSeq(arrs[e], n + 1, Len(arrs[e])))

add_InPlace(arrs, e, id, data) ==
  LET matchIndex == findIndex(arrs[e], id)
      item == [id |-> id, data |-> data]
      updated == IF matchIndex > -1
                 THEN splice(arrs[e], matchIndex, item)
                 ELSE Append(arrs[e], item)
  IN  Append([arrs EXCEPT ![e] = updated], updated)

createImmutableQueue_add(arrs, e, id, data) ==
  LET matchIndex == findIndex(arrs[e], id)
      item == [id |-> id, data |-> data]
      withCopy == Append(arrs, arrs[e])          \* const copy = entries.slice()
      copy == Len(withCopy)
  IN  IF matchIndex > -1
      THEN [withCopy EXCEPT ![copy] = splice(@, matchIndex, item)]
      ELSE [withCopy EXCEPT ![copy] = Append(@, item)]

remove_DropTail(arrs, e, id) ==
  LET matchIndex == findIndex(arrs[e], id)
  IN  IF matchIndex > -1
      THEN Append(arrs, SubSeq(arrs[e], 1, matchIndex))
      ELSE Append(arrs, arrs[e])

\* copy.splice(entries.findIndex(...), 1): an index of -1 counts from the end.
\* A remove that drops the first entry when the id is absent.
remove_ShiftOnMiss(arrs, e, id) ==
  IF findIndex(arrs[e], id) > -1
  THEN Append(arrs, filter(arrs[e], id))
  ELSE Append(arrs, SubSeq(arrs[e], 2, Len(arrs[e])))

remove_SpliceAt(arrs, e, id) ==
  LET matchIndex == findIndex(arrs[e], id)
      n == Len(arrs[e])
      at == IF matchIndex > -1 THEN matchIndex + 1 ELSE n
  IN  Append(arrs, SubSeq(arrs[e], 1, at - 1) \o SubSeq(arrs[e], at + 1, n))

\* Removal that fills the hole with the last entry.
remove_SwapWithLast(arrs, e, id) ==
  LET matchIndex == findIndex(arrs[e], id)
      n == Len(arrs[e])
  IN  IF matchIndex > -1
      THEN Append(arrs, SubSeq(splice(arrs[e], matchIndex, arrs[e][n]), 1, n - 1))
      ELSE Append(arrs, arrs[e])

createImmutableQueue_remove(arrs, e, id) ==
  Append(arrs, filter(arrs[e], id))

removeAll_KeepFirst(arrs, e) ==
  Append(arrs, SubSeq(arrs[e], 1, IF Len(arrs[e]) > 0 THEN 1 ELSE 0))

createImmutableQueue_removeAll(arrs, e) ==
  Append(arrs, <<>>)                              \* createImmutableQueue(): entries = []

----------------------------------------------------------------------------
(* createMockImmutableQueue(initialValue): one backing array, address e.   *)

updateEntries_NoClear(arrs, e, src) ==
  [arrs EXCEPT ![e] = @ \o arrs[src]]

\* entries.splice(0, entries.length); entries.push(...queue.entries)
updateEntries(arrs, e, src) ==
  LET cleared == [arrs EXCEPT ![e] = <<>>]
  IN  [cleared EXCEPT ![e] = @ \o cleared[src]]

\* The temporary queue and its array are garbage once the call returns.
dropTemp(arrs, n) == SubSeq(arrs, 1, n)

createMockImmutableQueue_add(arrs, e, id, data) ==
  LET queue == createImmutableQueue_add(arrs, e, id, data)
  IN  dropTemp(updateEntries(queue, e, Len(queue)), Len(arrs))

remove_NoUpdate(arrs, e, id) == arrs

createMockImmutableQueue_remove(arrs, e, id) ==
  LET queue == createImmutableQueue_remove(arrs, e, id)
  IN  dropTemp(updateEntries(queue, e, Len(queue)), Len(arrs))

createMockImmutableQueue_removeAll(arrs, e) ==
  LET queue == createImmutableQueue_removeAll(arrs, e)
  IN  dropTemp(updateEntries(queue, e, Len(queue)), Len(arrs))

----------------------------------------------------------------------------
(* queue.add / queue.remove / queue.removeAll on the object o, whichever   *)
(* kind of queue it is: [arrays, objs, ret].                               *)

NewQueue(arrs) == [kind |-> "immutable", entries |-> Len(arrs)]

Returned(arrs, os, o) ==
  IF os[o].kind = "mock"
  THEN [arrays |-> arrs, objs |-> os, ret |-> o]                  \* return this
  ELSE [arrays |-> arrs, objs |-> Append(os, NewQueue(arrs)), ret |-> Len(os) + 1]

\* An add that returns the queue it was called on when the entry is already there.
queue_add_SameIfPresent(arrs, os, o, id, data) ==
  IF \E i \in 1..Len(arrs[os[o].entries]) : arrs[os[o].entries][i] = [id |-> id, data |-> data]
  THEN [arrays |-> arrs, objs |-> os, ret |-> o]
  ELSE Returned(IF os[o].kind = "mock"
                THEN createMockImmutableQueue_add(arrs, os[o].entries, id, data)
                ELSE createImmutableQueue_add(arrs, os[o].entries, id, data), os, o)

queue_add(arrs, os, o, id, data) ==
  Returned(IF os[o].kind = "mock"
           THEN createMockImmutableQueue_add(arrs, os[o].entries, id, data)
           ELSE createImmutableQueue_add(arrs, os[o].entries, id, data), os, o)

\* A remove that throws for an id the queue does not hold: no queue is returned.
queue_remove_ThrowsOnMiss(arrs, os, o, id) ==
  IF findIndex(arrs[os[o].entries], id) > -1
  THEN Returned(IF os[o].kind = "mock"
                THEN createMockImmutableQueue_remove(arrs, os[o].entries, id)
                ELSE createImmutableQueue_remove(arrs, os[o].entries, id), os, o)
  ELSE [arrays |-> arrs, objs |-> os, ret |-> 0]

queue_remove(arrs, os, o, id) ==
  Returned(IF os[o].kind = "mock"
           THEN createMockImmutableQueue_remove(arrs, os[o].entries, id)
           ELSE createImmutableQueue_remove(arrs, os[o].entries, id), os, o)

queue_removeAll(arrs, os, o) ==
  Returned(IF os[o].kind = "mock"
           THEN createMockImmutableQueue_removeAll(arrs, os[o].entries)
           ELSE createImmutableQueue_removeAll(arrs, os[o].entries), os, o)

----------------------------------------------------------------------------
(* The removal callbacks of useQueue: a registry keyed by id, and the      *)
(* callbacks invoked so far. Each returns [registry, fired].               *)

NoCallbacks == [k \in Ids |-> 0]

\* An add that invokes the callback it overwrites.
callbacks_add_FireOld(reg, fd, id, cb) ==
  [registry |-> IF cb # 0 THEN [reg EXCEPT ![id] = cb] ELSE reg,
   fired |-> IF cb # 0 /\ reg[id] # 0 THEN Append(fd, reg[id]) ELSE fd]

callbacks_add(reg, fd, id, cb) ==
  [registry |-> IF cb # 0 THEN [reg EXCEPT ![id] = cb] ELSE reg, fired |-> fd]

callbacks_remove_KeepRegistered(reg, fd, entries, id) ==
  IF findIndex(entries, id) > -1 /\ reg[id] # 0
  THEN [registry |-> reg, fired |-> Append(fd, reg[id])]
  ELSE [registry |-> reg, fired |-> fd]

callbacks_remove(reg, fd, entries, id) ==
  IF findIndex(entries, id) > -1 /\ reg[id] # 0
  THEN [registry |-> [reg EXCEPT ![id] = 0], fired |-> Append(fd, reg[id])]
  ELSE [registry |-> reg, fired |-> fd]

Reversed(s) == [i \in 1..Len(s) |-> s[Len(s) + 1 - i]]

callbacks_removeAll_Reversed(reg, fd, entries) ==
  LET cbs == [i \in 1..Len(entries) |-> reg[entries[i].id]]
  IN  [registry |-> NoCallbacks,
       fired |-> fd \o Reversed(SelectSeq(cbs, LAMBDA c : c # 0))]

\* A removeAll that leaves the callback of the last entry registered.
callbacks_removeAll_KeepLast(reg, fd, entries) ==
  LET cbs == [i \in 1..Len(entries) |-> reg[entries[i].id]]
  IN  [registry |-> [k \in Ids |-> IF entries # <<>> /\ k = entries[Len(entries)].id
                                  THEN reg[k] ELSE 0],
       fired |-> fd \o SelectSeq(cbs, LAMBDA c : c # 0)]

\* A removeAll that invokes the callbacks and keeps them registered.
callbacks_removeAll_KeepRegistry(reg, fd, entries) ==
  LET cbs == [i \in 1..Len(entries) |-> reg[entries[i].id]]
  IN  [registry |-> reg, fired |-> fd \o SelectSeq(cbs, LAMBDA c : c # 0)]

callbacks_removeAll(reg, fd, entries) ==
  LET cbs == [i \in 1..Len(entries) |-> reg[entries[i].id]]
  IN  [registry |-> NoCallbacks, fired |-> fd \o SelectSeq(cbs, LAMBDA c : c # 0)]

----------------------------------------------------------------------------
Op(op, recv, id, data, ret) ==
  [op |-> op, recv |-> recv, id |-> id, data |-> data, ret |-> ret]

Update(op, id, data, cb) == [op |-> op, id |-> id, data |-> data, cb |-> cb]

----------------------------------------------------------------------------
(* createNotificationContext: the context, its Provider and its accessor.  *)

\* createContext<QueueHook<Notification> | null>(null): the value a
\* component reads when no Provider encloses it.
NoBinding == [add |-> 0, remove |-> 0, removeAll |-> 0, entries |-> 0]

NotCalled == [called |-> FALSE, threw |-> FALSE, error |-> "", queue |-> NoBinding]

useNotificationQueue_NoCheck(queue) ==
  [called |-> TRUE, threw |-> FALSE, error |-> "", queue |-> queue]

\* const queue = useContext(NotificationQueueContext);
\* if (!queue) throw new Error('Missing <NotificationProvider>'); return queue
useNotificationQueue(queue) ==
  IF queue = NoBinding
  THEN [called |-> TRUE, threw |-> TRUE, error |-> "Missing <NotificationProvider>",
        queue |-> NoBinding]
  ELSE [called |-> TRUE, threw |-> FALSE, error |-> "", queue |-> queue]

NotificationProvider_OwnQueue(os, arrs, initialQueue) ==
  [objs |-> Append(os, NewQueue(Append(arrs, <<>>))),
   arrays |-> Append(arrs, <<>>),
   held |-> Len(os) + 1]

\* useQueue(initialQueue ? initialQueue : createImmutableQueue()): the heap
\* and the queue object the state cell starts with (initialQueue 0: no prop).
NotificationProvider_queue(os, arrs, initialQueue) ==
  IF initialQueue # 0
  THEN [objs |-> os, arrays |-> arrs, held |-> initialQueue]
  ELSE [objs |-> Append(os, NewQueue(Append(arrs, <<>>))),
        arrays |-> Append(arrs, <<>>),
        held |-> Len(os) + 1]

----------------------------------------------------------------------------
(* What one render of useQueue returns.  A function or an object made by a *)
(* render is the one of the previous render when its dependencies are      *)
(* unchanged, otherwise a new one: functions are numbered by generation,   *)
(* and the memoized object is identified by its four dependencies.         *)

useCallback(fn, prevDeps, deps) == IF deps = prevDeps THEN fn ELSE fn + 1

callbackDeps_Entries(entries) == <<"setQueue", entries>>

\* The dependency list of add, remove and removeAll: [setQueue]; setQueue
\* is the same function on every render.
callbackDeps(entries) == <<"setQueue">>

render_StaleMemo(prev, entries) == prev

\* useMemo(() => ({ add, remove, removeAll, entries }), [add, remove, removeAll, entries])
useQueue_render(prev, entries) ==
  LET cb(fn) == useCallback(fn, callbackDeps(prev.entries), callbackDeps(entries))
  IN  [add |-> cb(prev.add), remove |-> cb(prev.remove),
       removeAll |-> cb(prev.removeAll), entries |-> entries]

useQueue_firstRender(entries) ==
  [add |-> 1, remove |-> 1, removeAll |-> 1, entries |-> entries]

----------------------------------------------------------------------------
NoRegistry ==
  /\ registry = NoCallbacks /\ fired = <<>>
  /\ prevRegistry = NoCallbacks /\ prevFired = <<>>
  /\ nextCb = 1 /\ lastCb = 0 /\ replaced = {}

\* No scripted program.
NoScript == [data |-> <<>>, todo |-> <<>>]

NoHistory == [k \in Ids |-> 0]

NoOther ==
  /\ script = NoScript
  /\ timers = <<>> /\ clock = 1 /\ clicks = 0
  /\ born = NoHistory /\ ops = 0 /\ clearedAt = <<>> /\ nRenders = 0 /\ instances = <<>>

NoHook ==
  /\ held = 0 /\ rendered = 0 /\ pending = <<>> /\ flushing = FALSE /\ batch = 0
  /\ nCalls = 0 /\ supplied = 0
  /\ published = NoBinding /\ shown = <<>> /\ access = NotCalled

\* The queue used directly: createImmutableQueue(s) or createMockImmutableQueue(s).
InitQueue ==
  /\ mode \in {"immutable", "mock"}
  /\ \E s \in UniqueSeqs : arrays = <<s>>
  /\ objs = <<[kind |-> mode, entries |-> 1]>>
  /\ expected = arrays[1]
  /\ NoHook /\ NoRegistry
  /\ snapshotCallbacks = <<>>

\* <NotificationProvider queue={...}> on its first render, with its
\* consumers: the queue prop is absent, or an empty queue of either kind
\* (createNotificationQueue(), createMockNotificationQueue()).
InitHook ==
  /\ mode = "hook"
  /\ \E prop \in {"none", "immutable", "mock"} :
       LET os == IF prop = "none" THEN <<>> ELSE <<[kind |-> prop, entries |-> 1]>>
           arrs == IF prop = "none" THEN <<>> ELSE << <<>> >>
           p == NotificationProvider_queue(os, arrs, Len(os))
       IN  /\ objs = p.objs
           /\ arrays = p.arrays
           /\ held = p.held
           /\ rendered = p.held
           /\ supplied = Len(os)
           /\ published = useQueue_firstRender(p.objs[p.held].entries)
  /\ shown = arrays[published.entries]
  /\ access = useNotificationQueue(published)
  /\ pending = <<>> /\ flushing = FALSE /\ batch = 0 /\ nCalls = 0
  /\ expected = <<>>
  /\ NoRegistry
  /\ snapshotCallbacks = <<>>

\* A component that calls useNotificationQueue() with no Provider above it.
InitOutside ==
  /\ mode = "outside"
  /\ arrays = << <<>> >>
  /\ objs = <<[kind |-> "immutable", entries |-> 1]>>
  /\ expected = <<>>
  /\ NoHook /\ NoRegistry
  /\ snapshotCallbacks = <<>>

Init ==
  /\ InitQueue \/ InitHook \/ InitOutside
  /\ NoOther
  /\ handle = objs[1].entries
  /\ last = Op("none", 0, NoId, NoData, 0)
  /\ prevArrays = arrays

\* The entries of the queue q after a call, as createImmutableQueue computes them.
AfterAdd(q, id, data) ==
  LET a == createImmutableQueue_add(<<q>>, 1, id, data) IN a[Len(a)]
AfterRemove(q, id) ==
  LET a == createImmutableQueue_remove(<<q>>, 1, id) IN a[Len(a)]
AfterRemoveAll(q) ==
  LET a == createImmutableQueue_removeAll(<<q>>, 1) IN a[Len(a)]

\* The call r on the queue object q, used directly.
Direct(r, lst, exp) ==
  /\ arrays' = r.arrays
  /\ objs' = r.objs
  /\ last' = lst
  /\ prevArrays' = arrays
  /\ expected' = exp
  /\ UNCHANGED <<mode, handle, hookVars, cbVars, access, snapshotCallbacks, otherVars>>

\* q.add(id, data) on an immutable queue q: returns a new queue object.
ImmAddCall(q, id, data) ==
  /\ mode = "immutable"
  /\ Len(objs) < MaxObjs
  /\ LET r == queue_add(arrays, objs, q, id, data)
     IN  Direct(r, Op("add", q, id, data, r.ret), expected)

ImmAdd == \E q \in 1..Len(objs), id \in Ids, data \in Datas : ImmAddCall(q, id, data)

ImmRemoveCall(q, id) ==
  /\ mode = "immutable"
  /\ Len(objs) < MaxObjs
  /\ LET r == queue_remove(arrays, objs, q, id)
     IN  Direct(r, Op("remove", q, id, NoData, r.ret), expected)

ImmRemove == \E q \in 1..Len(objs), id \in Ids : ImmRemoveCall(q, id)

ImmRemoveAllCall(q) ==
  /\ mode = "immutable"
  /\ Len(objs) < MaxObjs
  /\ LET r == queue_removeAll(arrays, objs, q)
     IN  Direct(r, Op("removeAll", q, NoId, NoData, r.ret), expected)

ImmRemoveAll == \E q \in 1..Len(objs) : ImmRemoveAllCall(q)

\* m.add(id, data) on the mock queue m: mutates m's array, returns this.
MockAddCall(id, data) ==
  /\ mode = "mock"
  /\ LET r == queue_add(arrays, objs, 1, id, data)
     IN  Direct(r, Op("add", 1, id, data, r.ret), AfterAdd(expected, id, data))

MockAdd == \E id \in Ids, data \in Datas : MockAddCall(id, data)

MockRemoveCall(id) ==
  /\ mode = "mock"
  /\ LET r == queue_remove(arrays, objs, 1, id)
     IN  Direct(r, Op("remove", 1, id, NoData, r.ret), AfterRemove(expected, id))

MockRemove == \E id \in Ids : MockRemoveCall(id)

MockRemoveAll ==
  /\ mode = "mock"
  /\ LET r == queue_removeAll(arrays, objs, 1)
     IN  Direct(r, Op("removeAll", 1, NoId, NoData, r.ret), AfterRemoveAll(expected))

\* The component outside any Provider renders: useContext gives the default.
RenderOutside ==
  /\ mode = "outside"
  /\ access' = useNotificationQueue(NoBinding)
  /\ UNCHANGED <<mode, handle, arrays, objs, last, prevArrays, hookVars, cbVars,
                 expected, snapshotCallbacks, otherVars>>

----------------------------------------------------------------------------
(* useQueue: add, remove and removeAll pass an updater to setQueue; React  *)
(* runs the pending updaters in order when it next renders the component.  *)

\* A call comes from an event handler or a timer, never from inside a render
\* (JavaScript runs one of them at a time), hence ~flushing.
Call(u, exp, cb) ==
  /\ mode = "hook"
  /\ ~flushing
  /\ nCalls < MaxCalls
  /\ pending' = Append(pending, u)
  /\ nCalls' = nCalls + 1
  /\ expected' = exp
  /\ nextCb' = cb
  /\ UNCHANGED <<mode, handle, arrays, objs, last, prevArrays, held, flushing, batch,
                 rendered, supplied, published, shown, access, registry, fired,
                 prevRegistry, prevFired, lastCb, replaced, snapshotCallbacks, otherVars>>

\* add(id, data) and add(id, data, onRemove)
HookAddCall(id, data, withCb) ==
  Call(Update("add", id, data, IF withCb THEN nextCb ELSE 0),
       AfterAdd(expected, id, data),
       IF withCb THEN nextCb + 1 ELSE nextCb)

HookAdd == \E id \in HookIds, data \in Datas, withCb \in BOOLEAN : HookAddCall(id, data, withCb)

HookRemoveCall(id) ==
  Call(Update("remove", id, NoData, 0), AfterRemove(expected, id), nextCb)

HookRemove == \E id \in HookIds : HookRemoveCall(id)

HookRemoveAll ==
  Call(Update("removeAll", NoId, NoData, 0), AfterRemoveAll(expected), nextCb)

\* What the updater u returns for the state o, and the callbacks it leaves.
RunQueue(u, arrs, os, o) ==
  CASE u.op = "add" -> queue_add(arrs, os, o, u.id, u.data)
    [] u.op = "remove" -> queue_remove(arrs, os, o, u.id)
    [] OTHER -> queue_removeAll(arrs, os, o)

RunCallbacks(u, reg, fd, entries) ==
  CASE u.op = "add" -> callbacks_add(reg, fd, u.id, u.cb)
    [] u.op = "remove" -> callbacks_remove(reg, fd, entries, u.id)
    [] OTHER -> callbacks_removeAll(reg, fd, entries)

\* The state an updater receives: setQueue(queue => ...) is given the state
\* the updaters before it have left, not the state of the last render.
StateForUpdater_Stale == rendered

\* An updater that used the state of the render its callable was made in.
StateForUpdater_Captured == Head(pending).seen

StateForUpdater == held

\* React runs the oldest pending updater.  After the last one it compares
\* the new state with the state of the last render (Object.is): when they
\* differ the component renders again, and the consumers of the context
\* render again when the value it provides is a new object.
RunUpdater ==
  /\ mode = "hook"
  /\ pending # <<>>
  /\ LET u == Head(pending)
         q == StateForUpdater
         r == RunQueue(u, arrays, objs, q)
         c == RunCallbacks(u, registry, fired, arrays[objs[q].entries])
         renders == Tail(pending) = <<>> /\ r.ret # rendered
         value == IF renders
                  THEN useQueue_render(published, r.objs[r.ret].entries)
                  ELSE published
     IN  /\ arrays' = r.arrays
         /\ objs' = r.objs
         /\ held' = r.ret
         /\ registry' = c.registry
         /\ fired' = c.fired
         /\ last' = Op(u.op, q, u.id, u.data, r.ret)
         /\ lastCb' = u.cb
         /\ replaced' = replaced \cup
              (IF u.op = "add" /\ registry[u.id] # 0 /\ c.registry[u.id] # registry[u.id]
               THEN {registry[u.id]} ELSE {})
         /\ rendered' = IF renders THEN r.ret ELSE rendered
         /\ published' = value
         /\ shown' = IF value # published THEN r.arrays[value.entries] ELSE shown
         /\ access' = IF value # published THEN useNotificationQueue(value) ELSE access
  /\ pending' = Tail(pending)
  /\ flushing' = (Tail(pending) # <<>>)
  /\ batch' = IF flushing THEN batch + 1 ELSE 1
  /\ prevArrays' = arrays
  /\ prevRegistry' = registry
  /\ prevFired' = fired
  /\ UNCHANGED <<mode, handle, nextCb, nCalls, expected, supplied, snapshotCallbacks,
                 otherVars>>

\* The entries the hook returns: const [{ entries }, setQueue] = useState(...)
hookEntries == arrays[objs[rendered].entries]

Next ==
  \/ ImmAdd \/ ImmRemove \/ ImmRemoveAll
  \/ MockAdd \/ MockRemove \/ MockRemoveAll
  \/ RenderOutside
  \/ HookAdd \/ HookRemove \/ HookRemoveAll
  \/ RunUpdater

Spec == Init /\ [][Next]_vars

----------------------------------------------------------------------------
(* Immutable queues used directly with removal callbacks, as in            *)
(* q.add(id, data, onRemove): every queue object carries, out of band, the *)
(* callbacks of its entries; remove and removeAll invoke those of the      *)
(* entries they drop.  A program may call any queue object it still holds. *)

InitSnapshots ==
  /\ mode = "snapshots"
  /\ arrays = << <<>> >>
  /\ objs = <<[kind |-> "immutable", entries |-> 1]>>
  /\ snapshotCallbacks = <<NoCallbacks>>
  /\ expected = <<>>
  /\ NoHook /\ NoRegistry /\ NoOther
  /\ handle = 1
  /\ last = Op("none", 0, NoId, NoData, 0)
  /\ prevArrays = arrays

\* The call r on the snapshot q, leaving the callbacks c.
Snapshot(r, c, lst, cb) ==
  /\ mode = "snapshots"
  /\ Len(objs) < MaxSnapshots
  /\ arrays' = r.arrays
  /\ objs' = r.objs
  /\ snapshotCallbacks' = Append(snapshotCallbacks, c.registry)
  /\ fired' = c.fired
  /\ prevFired' = fired
  /\ last' = lst
  /\ lastCb' = cb
  /\ nextCb' = IF cb # 0 THEN nextCb + 1 ELSE nextCb
  /\ prevArrays' = arrays
  /\ UNCHANGED <<mode, handle, hookVars, registry, prevRegistry, replaced, access, expected,
                 otherVars>>

SnapshotAdd ==
  \E q \in 1..Len(objs), id \in HookIds, data \in Datas, withCb \in BOOLEAN :
    LET cb == IF withCb THEN nextCb ELSE 0
        r == queue_add(arrays, objs, q, id, data)
    IN  Snapshot(r, callbacks_add(snapshotCallbacks[q], fired, id, cb),
                 Op("add", q, id, data, r.ret), cb)

SnapshotRemove ==
  \E q \in 1..Len(objs), id \in HookIds :
    LET r == queue_remove(arrays, objs, q, id)
    IN  Snapshot(r, callbacks_remove(snapshotCallbacks[q], fired, arrays[objs[q].entries], id),
                 Op("remove", q, id, NoData, r.ret), 0)

SnapshotRemoveAll ==
  \E q \in 1..Len(objs) :
    LET r == queue_removeAll(arrays, objs, q)
    IN  Snapshot(r, callbacks_removeAll(snapshotCallbacks[q], fired, arrays[objs[q].entries]),
                 Op("removeAll", q, NoId, NoData, r.ret), 0)

NextSnapshots == SnapshotAdd \/ SnapshotRemove \/ SnapshotRemoveAll

SpecSnapshots == InitSnapshots /\ [][NextSnapshots]_vars

----------------------------------------------------------------------------
(* The scenario of the test suites ('should add and remove ...'): from an  *)
(* empty queue, add a, add b, add a again, remove a, removeAll, made on an *)
(* immutable queue and its successors, on a mock queue, or through the     *)
(* binding, where React may render after each call or after several.       *)

ScenarioDatas == {"x", "y", "z"}

Scenario(x, y, z) ==
  <<Update("add", "a", x, 0), Update("add", "b", y, 0), Update("add", "a", z, 0),
    Update("remove", "a", NoData, 0), Update("removeAll", NoId, NoData, 0)>>

InitScenario ==
  /\ \/ InitQueue /\ arrays = << <<>> >>
     \/ InitHook
  /\ \E x, y, z \in ScenarioDatas :
       script = [data |-> <<x, y, z>>, todo |-> Scenario(x, y, z)]
  /\ timers = <<>> /\ clock = 1 /\ clicks = 0
  /\ born = NoHistory /\ ops = 0 /\ clearedAt = <<>> /\ nRenders = 0 /\ instances = <<>>
  /\ handle = objs[1].entries
  /\ last = Op("none", 0, NoId, NoData, 0)
  /\ prevArrays = arrays

\* The queue object the next direct call is made on: q = q.add(...).
Newest == IF last.op = "none" THEN 1 ELSE last.ret

\* The next call of the script, on the queue itself.
ScriptedQueueCall ==
  /\ mode \in {"immutable", "mock"}
  /\ script.todo # <<>>
  /\ LET u == Head(script.todo)
         r == RunQueue(u, arrays, objs, Newest)
     IN  /\ arrays' = r.arrays
         /\ objs' = r.objs
         /\ last' = Op(u.op, Newest, u.id, u.data, r.ret)
  /\ prevArrays' = arrays
  /\ script' = [script EXCEPT !.todo = Tail(@)]
  /\ UNCHANGED <<mode, handle, hookVars, cbVars, access, expected, snapshotCallbacks,
                 timers, clock, clicks, born, ops, clearedAt, nRenders, instances>>

\* The next call of the script, on the binding: setQueue(updater).
ScriptedHookCall ==
  /\ mode = "hook"
  /\ ~flushing
  /\ script.todo # <<>>
  /\ pending' = Append(pending, Head(script.todo))
  /\ nCalls' = nCalls + 1
  /\ script' = [script EXCEPT !.todo = Tail(@)]
  /\ UNCHANGED <<mode, handle, arrays, objs, last, prevArrays, held, flushing, batch,
                 rendered, supplied, published, shown, access, cbVars, expected,
                 snapshotCallbacks, timers, clock, clicks, born, ops, clearedAt, nRenders, instances>>

NextScenario == ScriptedQueueCall \/ ScriptedHookCall \/ RunUpdater

SpecScenario == InitScenario /\ [][NextScenario]_vars

----------------------------------------------------------------------------
(* createImmutableQueue(entries) and createMockImmutableQueue(initialValue) *)
(* called with an array the caller made: any items, ids repeated or not.   *)
(* The queue keeps that array itself as its `entries` (no copy is made),   *)
(* and the caller still holds it.                                          *)

GivenItems == [id : HookIds, data : {"x"}]

GivenSeqs == UNION {[1..n -> GivenItems] : n \in 0..MaxGiven}

InitSupplied ==
  /\ mode \in {"immutable", "mock"}
  /\ \E s \in GivenSeqs : arrays = <<s>>
  /\ objs = <<[kind |-> mode, entries |-> 1]>>
  /\ expected = arrays[1]
  /\ NoHook /\ NoRegistry /\ NoOther
  /\ snapshotCallbacks = <<>>
  /\ handle = 1
  /\ last = Op("none", 0, NoId, NoData, 0)
  /\ prevArrays = arrays

\* The caller pushes an item onto the array it passed in.
CallerPush ==
  \E item \in GivenItems :
    /\ mode = "immutable"
    /\ Len(arrays[handle]) <= MaxGiven
    /\ arrays' = [arrays EXCEPT ![handle] = Append(@, item)]
    /\ last' = Op("push", 1, item.id, item.data, 1)
    /\ prevArrays' = arrays
    /\ UNCHANGED <<mode, handle, objs, hookVars, cbVars, access, expected,
                   snapshotCallbacks, otherVars>>

\* The caller passes the same array to createImmutableQueue once more.
ConstructAgain ==
  /\ mode = "immutable"
  /\ Len(objs) < MaxObjs
  /\ objs' = Append(objs, [kind |-> "immutable", entries |-> handle])
  /\ last' = Op("create", 1, NoId, NoData, Len(objs) + 1)
  /\ prevArrays' = arrays
  /\ UNCHANGED <<mode, handle, arrays, hookVars, cbVars, access, expected,
                 snapshotCallbacks, otherVars>>

NextSupplied ==
  \/ ImmAdd \/ ImmRemove \/ ImmRemoveAll
  \/ MockAdd \/ MockRemove \/ MockRemoveAll
  \/ CallerPush \/ ConstructAgain

SpecSupplied == InitSupplied /\ [][NextSupplied]_vars

----------------------------------------------------------------------------
(* Two calls in a row on a queue of either kind, q.f(...).g(...): an add   *)
(* of an absent id followed by its remove, or the same call twice.  The    *)
(* queue is built from any sequence with unique ids, or from a caller's    *)
(* array with repeated ids for the repeated calls.  `expected` keeps the   *)
(* entries the queue started with.                                         *)

Calls ==
  {Update("add", id, data, 0) : id \in Ids, data \in Datas}
    \cup {Update("remove", id, NoData, 0) : id \in Ids}
    \cup {Update("removeAll", NoId, NoData, 0)}

RoundTrips(s) ==
  {<<Update("add", id, data, 0), Update("remove", id, NoData, 0)>> :
     id \in Ids \ {s[i].id : i \in 1..Len(s)}, data \in Datas}

Repeats == {<<u, u>> : u \in Calls}

InitPairs ==
  /\ mode \in {"immutable", "mock"}
  /\ \E s \in UniqueSeqs \cup GivenSeqs :
       /\ arrays = <<s>>
       /\ \E p \in Repeats \cup (IF HasUniqueIds(s) THEN RoundTrips(s) ELSE {}) :
            script = [data |-> p, todo |-> p]
  /\ objs = <<[kind |-> mode, entries |-> 1]>>
  /\ expected = arrays[1]
  /\ NoHook /\ NoRegistry
  /\ snapshotCallbacks = <<>>
  /\ timers = <<>> /\ clock = 1 /\ clicks = 0
  /\ born = NoHistory /\ ops = 0 /\ clearedAt = <<>> /\ nRenders = 0 /\ instances = <<>>
  /\ handle = 1
  /\ last = Op("none", 0, NoId, NoData, 0)
  /\ prevArrays = arrays

NextPairs == ScriptedQueueCall

SpecPairs == InitPairs /\ [][NextPairs]_vars

----------------------------------------------------------------------------
(* A queue that starts empty and is used linearly: each call is made on    *)
(* the queue the call before it returned.  `born` records, outside the     *)
(* queue, the number of the add that brought each id in while it was       *)
(* absent.                                                                  *)

InitHistory ==
  /\ InitQueue
  /\ arrays = << <<>> >>
  /\ NoOther
  /\ handle = objs[1].entries
  /\ last = Op("none", 0, NoId, NoData, 0)
  /\ prevArrays = arrays

HistoryCall(u, b) ==
  /\ mode \in {"immutable", "mock"}
  /\ ops < MaxOps
  /\ LET r == RunQueue(u, arrays, objs, Newest)
     IN  /\ arrays' = r.arrays
         /\ objs' = r.objs
         /\ last' = Op(u.op, Newest, u.id, u.data, r.ret)
  /\ prevArrays' = arrays
  /\ born' = b
  /\ ops' = ops + 1
  /\ UNCHANGED <<mode, handle, hookVars, cbVars, access, expected, snapshotCallbacks,
                 script, timers, clock, clicks, clearedAt, nRenders, instances>>

HistoryAdd ==
  \E id \in Ids, data \in Datas :
    HistoryCall(Update("add", id, data, 0),
                IF born[id] = 0 THEN [born EXCEPT ![id] = ops + 1] ELSE born)

HistoryRemove ==
  \E id \in Ids :
    HistoryCall(Update("remove", id, NoData, 0), [born EXCEPT ![id] = 0])

HistoryRemoveAll ==
  HistoryCall(Update("removeAll", NoId, NoData, 0), NoHistory)

NextHistory == HistoryAdd \/ HistoryRemove \/ HistoryRemoveAll

SpecHistory == InitHistory /\ [][NextHistory]_vars

----------------------------------------------------------------------------
(* The example app (example/index.tsx): a Provider with no queue prop, a   *)
(* button whose click adds a notification under the id Date.now() and      *)
(* starts a 3000 ms timer that removes it, a button that clears all, and    *)
(* add's third argument () => clearTimeout(timeout).  A handler runs to    *)
(* its end and React renders before the next click or timer is handled.    *)
(* The timeout handle of a click is the number of its removal callback.    *)

\* Date.now().toString() in each millisecond.
TimeIds == <<"a", "b", "c">>

Range(s) == {s[i] : i \in 1..Len(s)}

\* Timers of which each setTimeout replaces the one before it.
Live_LatestOnly(t) == ~timers[t].done /\ t \notin Range(fired) /\ t = Len(timers)

\* The timer t has neither fired nor been cleared by clearTimeout.
Live(t) == ~timers[t].done /\ t \notin Range(fired)

InitTimers ==
  /\ InitHook
  /\ supplied = 0
  /\ NoOther
  /\ handle = objs[1].entries
  /\ last = Op("none", 0, NoId, NoData, 0)
  /\ prevArrays = arrays

\* A handler calls one of the callables `notifications` had in the render
\* `seen`: setQueue(updater).
Handler(u, exp) ==
  /\ pending = <<>>
  /\ ~flushing
  /\ pending' = <<u>>
  /\ nCalls' = nCalls + 1
  /\ expected' = exp
  /\ UNCHANGED <<mode, handle, arrays, objs, last, prevArrays, held, flushing, batch,
                 rendered, supplied, published, shown, access, registry, fired,
                 prevRegistry, prevFired, lastCb, replaced, snapshotCallbacks, script, born, ops, nRenders, instances>>

\* addNotification
ClickAdd ==
  /\ clicks < MaxClicks
  /\ clock <= MaxClock
  /\ LET id == TimeIds[clock]
         timeout == nextCb
     IN  /\ timers' = Append(timers, [id |-> id, at |-> clock, seen |-> rendered, done |-> FALSE])
         /\ Handler([op |-> "add", id |-> id, data |-> "x", cb |-> timeout, seen |-> rendered],
                    AfterAdd(expected, id, "x"))
  /\ nextCb' = nextCb + 1
  /\ clicks' = clicks + 1
  /\ UNCHANGED <<clock, clearedAt>>

\* clearAll
ClickClearAll ==
  /\ clicks < MaxClicks
  /\ Handler([op |-> "removeAll", id |-> NoId, data |-> NoData, cb |-> 0, seen |-> rendered],
             AfterRemoveAll(expected))
  /\ clicks' = clicks + 1
  /\ UNCHANGED <<nextCb, timers, clock, clearedAt>>

\* The oldest live timer fires, 3000 ms after its click: notifications.remove(id),
\* with the `notifications` of the render in which the click was handled.
TimerFires ==
  \E t \in 1..Len(timers) :
    /\ Live(t)
    /\ \A s \in 1..(t - 1) : ~Live(s)
    /\ clock > timers[t].at
    /\ timers' = [timers EXCEPT ![t].done = TRUE]
    /\ Handler([op |-> "remove", id |-> timers[t].id, data |-> NoData, cb |-> 0,
                seen |-> timers[t].seen],
               AfterRemove(expected, timers[t].id))
    /\ UNCHANGED <<nextCb, clock, clicks, clearedAt>>

\* Time passes.
Tick ==
  /\ pending = <<>>
  /\ clock <= MaxClock
  /\ clock' = clock + 1
  /\ UNCHANGED <<mode, handle, arrays, objs, last, prevArrays, hookVars, cbVars, access,
                 expected, snapshotCallbacks, script, timers, clicks, born, ops, clearedAt, nRenders, instances>>

NextTimers == ClickAdd \/ ClickClearAll \/ TimerFires \/ Tick \/ RunUpdater

SpecTimers == InitTimers /\ [][NextTimers]_vars

\* A timer that is started and not cleared fires once its delay has passed,
\* time passes, and React runs the updates it has scheduled.
FairTimers == WF_vars(TimerFires) /\ WF_vars(Tick) /\ WF_vars(RunUpdater)

SpecTimersFair == InitTimers /\ [][NextTimers]_vars /\ FairTimers

----------------------------------------------------------------------------
(* A binding followed over MaxEvents events, each handled to its end       *)
(* (one call and React's render) before the next, with or without a        *)
(* removal callback on add.                                                 *)

InitRegistry ==
  /\ InitHook
  /\ NoOther
  /\ handle = objs[1].entries
  /\ last = Op("none", 0, NoId, NoData, 0)
  /\ prevArrays = arrays

Event(u, exp) ==
  /\ nCalls < MaxEvents
  /\ Handler(u, exp)
  /\ UNCHANGED <<timers, clock, clicks>>

EventAdd ==
  \E id \in HookIds, withCallback \in BOOLEAN :
    /\ Event(Update("add", id, "x", IF withCallback THEN nextCb ELSE 0),
             AfterAdd(expected, id, "x"))
    /\ nextCb' = IF withCallback THEN nextCb + 1 ELSE nextCb
    /\ UNCHANGED clearedAt

EventRemove ==
  \E id \in HookIds :
    /\ Event(Update("remove", id, NoData, 0), AfterRemove(expected, id))
    /\ UNCHANGED <<nextCb, clearedAt>>

EventRemoveAll ==
  /\ Event(Update("removeAll", NoId, NoData, 0), AfterRemoveAll(expected))
  /\ clearedAt' = Append(clearedAt, nextCb - 1)
  /\ UNCHANGED nextCb

NextRegistry == EventAdd \/ EventRemove \/ EventRemoveAll \/ RunUpdater

SpecRegistry == InitRegistry /\ [][NextRegistry]_vars

----------------------------------------------------------------------------
(* The Provider rendered again by its parent, between events: with no      *)
(* queue prop, with the queue prop of the first render, or with another    *)
(* queue the parent has made.  useState(initialValue) evaluates its        *)
(* argument on every render and uses it on the first one only.  The        *)
(* consumers may or may not be rendered again with the Provider.           *)

\* A state cell that takes the initial value of every render.
useState_TakesInitial(state, initialValue) == initialValue

\* const [{ entries }, setQueue] = useState(initialValue), after the first render.
useState(state, initialValue) == state

OtherEntries == {<<>>, <<[id |-> "c", data |-> "x"]>>}

ProviderRerender ==
  /\ mode = "hook"
  /\ pending = <<>>
  /\ ~flushing
  /\ nRenders < MaxRenders
  /\ \E prop \in {"none", "same", "other"}, kind \in {"immutable", "mock"},
        s \in OtherEntries, consumers \in BOOLEAN :
       /\ prop = "same" => supplied # 0
       /\ LET arrs == IF prop = "other" THEN Append(arrays, s) ELSE arrays
              os == IF prop = "other"
                    THEN Append(objs, [kind |-> kind, entries |-> Len(arrs)])
                    ELSE objs
              initialQueue == CASE prop = "none" -> 0
                                [] prop = "same" -> supplied
                                [] OTHER -> Len(os)
              p == NotificationProvider_queue(os, arrs, initialQueue)
              q == useState(held, p.held)
              value == useQueue_render(published, p.objs[q].entries)
          IN  /\ arrays' = p.arrays
              /\ objs' = p.objs
              /\ held' = q
              /\ rendered' = q
              /\ published' = value
              /\ shown' = IF consumers \/ value # published
                          THEN p.arrays[value.entries] ELSE shown
              /\ access' = IF consumers \/ value # published
                           THEN useNotificationQueue(value) ELSE access
              /\ last' = Op("render", held, NoId, NoData, q)
  /\ prevArrays' = arrays
  /\ nRenders' = nRenders + 1
  /\ UNCHANGED <<mode, handle, pending, flushing, batch, supplied, nCalls, cbVars,
                 expected, snapshotCallbacks, script, timers, clock, clicks, born, ops,
                 clearedAt, instances>>

\* An event whose handler makes one call, without a removal callback.
Plain(u, exp) ==
  /\ nCalls < MaxCalls
  /\ Handler(u, exp)
  /\ UNCHANGED <<nextCb, timers, clock, clicks, clearedAt>>

PlainAdd ==
  \E id \in HookIds : Plain(Update("add", id, "x", 0), AfterAdd(expected, id, "x"))

PlainRemove ==
  \E id \in HookIds : Plain(Update("remove", id, NoData, 0), AfterRemove(expected, id))

PlainRemoveAll ==
  Plain(Update("removeAll", NoId, NoData, 0), AfterRemoveAll(expected))

NextRerender == PlainAdd \/ PlainRemove \/ PlainRemoveAll \/ RunUpdater \/ ProviderRerender

InitRerender ==
  /\ InitHook
  /\ NoOther
  /\ handle = objs[1].entries
  /\ last = Op("none", 0, NoId, NoData, 0)
  /\ prevArrays = arrays

SpecRerender == InitRerender /\ [][NextRerender]_vars

----------------------------------------------------------------------------
(* Two queues made separately with no initial sequence: two                *)
(* createImmutableQueue(), two createMockImmutableQueue(), or two          *)
(* Providers without a queue prop, each with its own state cell.  Calls    *)
(* are made on either, in any order; `instances` keeps per instance the     *)
(* queue object it has arrived at and the entries its own calls produce.   *)

\* A default parameter that is one array shared by every call.
defaultEntries_Shared(arrs) == IF arrs = <<>> THEN << <<>> >> ELSE arrs

\* entries = [] / initialValue = []: a new empty array at every call.
defaultEntries(arrs) == Append(arrs, <<>>)

\* createImmutableQueue() or createMockImmutableQueue(): [arrays, objs, ret].
construct(kind, arrs, os) ==
  LET a == defaultEntries(arrs)
  IN  [arrays |-> a, objs |-> Append(os, [kind |-> kind, entries |-> Len(a)]),
       ret |-> Len(os) + 1]

\* <NotificationProvider> without a queue prop, on its first render.
mount(arrs, os) ==
  LET p == NotificationProvider_queue(os, arrs, 0)
  IN  [arrays |-> p.arrays, objs |-> p.objs, ret |-> p.held]

InitInstances ==
  /\ mode \in {"immutable", "mock", "providers"}
  /\ LET first == IF mode = "providers" THEN mount(<<>>, <<>>)
                  ELSE construct(mode, <<>>, <<>>)
         second == IF mode = "providers" THEN mount(first.arrays, first.objs)
                   ELSE construct(mode, first.arrays, first.objs)
     IN  /\ arrays = second.arrays
         /\ objs = second.objs
         /\ instances = <<[obj |-> first.ret, expected |-> <<>>],
                          [obj |-> second.ret, expected |-> <<>>]>>
  /\ expected = <<>>
  /\ NoHook /\ NoRegistry
  /\ snapshotCallbacks = <<>>
  /\ script = NoScript
  /\ timers = <<>> /\ clock = 1 /\ clicks = 0
  /\ born = NoHistory /\ ops = 0 /\ clearedAt = <<>> /\ nRenders = 0
  /\ handle = 1
  /\ last = Op("none", 0, NoId, NoData, 0)
  /\ prevArrays = arrays

\* A call on instance i: on the queue object it has arrived at, or through
\* its Provider's binding, whose updater receives the queue of its own cell.
InstanceCall(i, u, exp) ==
  /\ mode \in {"immutable", "mock", "providers"}
  /\ instances # <<>>
  /\ ops < MaxOps
  /\ LET r == RunQueue(u, arrays, objs, instances[i].obj)
     IN  /\ arrays' = r.arrays
         /\ objs' = r.objs
         /\ last' = Op(u.op, instances[i].obj, u.id, u.data, r.ret)
         /\ instances' = [instances EXCEPT ![i] = [obj |-> r.ret, expected |-> exp]]
  /\ prevArrays' = arrays
  /\ ops' = ops + 1
  /\ UNCHANGED <<mode, handle, hookVars, cbVars, access, expected, snapshotCallbacks,
                 script, timers, clock, clicks, born, clearedAt, nRenders>>

InstanceAdd ==
  \E i \in {1, 2}, id \in HookIds :
    InstanceCall(i, Update("add", id, "x", 0), AfterAdd(instances[i].expected, id, "x"))

InstanceRemove ==
  \E i \in {1, 2}, id \in HookIds :
    InstanceCall(i, Update("remove", id, NoData, 0), AfterRemove(instances[i].expected, id))

InstanceRemoveAll ==
  \E i \in {1, 2} :
    InstanceCall(i, Update("removeAll", NoId, NoData, 0), AfterRemoveAll(instances[i].expected))

NextInstances == InstanceAdd \/ InstanceRemove \/ InstanceRemoveAll

SpecInstances == InitInstances /\ [][NextInstances]_vars

----------------------------------------------------------------------------
(* Properties.  Before and After are the entries of the receiver when the  *)
(* last operation started and of the queue it returned.                    *)

Before == prevArrays[objs[last.recv].entries]
After == arrays[objs[last.ret].entries]
Item(id, data) == [id |-> id, data |-> data]
IdsOf(s) == {s[i].id : i \in 1..Len(s)}

RECURSIVE Without(_, _)
Without(s, k) ==
  IF s = <<>> THEN <<>>
  ELSE IF Head(s).id = k THEN Without(Tail(s), k)
       ELSE <<Head(s)>> \o Without(Tail(s), k)

Upserted(s, k, d) ==
  IF k \in IdsOf(s)
  THEN [i \in 1..Len(s) |-> IF s[i].id = k THEN Item(k, d) ELSE s[i]]
  ELSE s \o <<Item(k, d)>>

Count(s, x) == Cardinality({i \in 1..Len(s) : s[i] = x})

\* C1: add of an id that is present at position p keeps the length, puts
\* {id, data} at position p and leaves every other position as it was.
C1_UpsertInPlace ==
  last.op = "add" =>
    \A p \in 1..Len(Before) :
      Before[p].id = last.id =>
        /\ Len(After) = Len(Before)
        /\ After[p] = Item(last.id, last.data)
        /\ \A j \in 1..Len(Before) : j # p => After[j] = Before[j]

C1_Witness ==
  /\ last.op = "add"
  /\ Len(Before) = 3
  /\ Before[2].id = last.id
  /\ Before[2].data # last.data
  /\ After[2].data = last.data

\* C2: add of an id that is not present appends {id, data}: the length grows
\* by one, the last element is the new entry and the old entries come first,
\* in their order.
C2_AppendOnMiss ==
  (last.op = "add" /\ last.id \notin IdsOf(Before)) =>
    /\ Len(After) = Len(Before) + 1
    /\ After[Len(After)] = Item(last.id, last.data)
    /\ SubSeq(After, 1, Len(Before)) = Before

C2_Witness ==
  /\ last.op = "add"
  /\ last.id \notin IdsOf(Before)
  /\ Len(Before) = 2
  /\ Len(After) = 3

\* C3: remove(k) returns exactly the entries whose id differs from k, in
\* their relative order.
C3_RemoveIsFilter ==
  last.op = "remove" => After = Without(Before, last.id)

C3_Witness ==
  /\ last.op = "remove"
  /\ Len(Before) = 3
  /\ Before[2].id = last.id
  /\ After = <<Before[1], Before[3]>>

\* C4: no queue (immutable, mock, or held by the hook) ever holds two
\* entries with the same id.
C4_UniqueIds ==
  \A o \in 1..Len(objs) : HasUniqueIds(arrays[objs[o].entries])

C4_Witness ==
  /\ mode = "hook"
  /\ last.op = "add"
  /\ last.id \in IdsOf(Before)
  /\ Len(After) = 2
  /\ nCalls = MaxCalls

\* C5: add, remove and removeAll on an immutable queue return a queue object
\* other than the receiver and leave the receiver's entries as they were.
C5_Immutability ==
  (last.op # "none" /\ objs[last.recv].kind = "immutable") =>
    /\ last.ret # last.recv
    /\ arrays[objs[last.recv].entries] = Before

C5_Witness ==
  /\ mode = "immutable"
  /\ last.op = "add"
  /\ last.recv = 2
  /\ After # Before
  /\ arrays[objs[2].entries] = Before

\* C6: after removeAll the entries are the empty sequence, whatever the
\* queue held (immutable queue and mock queue).
C6_RemoveAllEmpty ==
  last.op = "removeAll" => After = <<>>

C6_Witness ==
  /\ mode = "mock"
  /\ last.op = "removeAll"
  /\ Len(Before) = 3
  /\ After = <<>>

\* C7: an add that registers a removal callback for k does not invoke it;
\* the remove(k) that finds it registered invokes it exactly once and drops
\* the registration; a remove(k) that finds none registered invokes nothing.
C7_CallbackFiresOnce ==
  mode = "hook" =>
    /\ last.op = "add" => fired = prevFired
    /\ (last.op = "remove" /\ prevRegistry[last.id] # 0) =>
         /\ fired = Append(prevFired, prevRegistry[last.id])
         /\ registry[last.id] = 0
    /\ (last.op = "remove" /\ prevRegistry[last.id] = 0) => fired = prevFired
    /\ \A k \in Ids : registry[k] # 0 => Count(fired, registry[k]) = 0

C7_Witness ==
  /\ mode = "hook"
  /\ nCalls = 3
  /\ nextCb = 2
  /\ pending = <<>>
  /\ last.op = "remove"
  /\ last.id = "a"
  /\ prevRegistry["a"] = 0
  /\ prevFired = <<1>>
  /\ fired = <<1>>
  /\ expected = <<>>

\* C8: removeAll invokes the callback of every entry present that has one
\* registered, each exactly once, in the order of the entries in the queue.
C8_RemoveAllFiresInOrder ==
  (mode = "hook" /\ last.op = "removeAll") =>
    LET n == Len(prevFired)
        new == SubSeq(fired, n + 1, Len(fired))
        pos(c) == CHOOSE i \in 1..Len(Before) : prevRegistry[Before[i].id] = c
    IN  /\ Len(fired) >= n
        /\ SubSeq(fired, 1, n) = prevFired
        /\ \A i \in 1..Len(Before) :
             prevRegistry[Before[i].id] # 0 =>
               Count(new, prevRegistry[Before[i].id]) = 1
        /\ \A j \in 1..Len(new) :
             \E i \in 1..Len(Before) : prevRegistry[Before[i].id] = new[j]
        /\ \A i, j \in 1..Len(new) : i < j => pos(new[i]) < pos(new[j])

C8_Witness ==
  /\ mode = "hook"
  /\ last.op = "removeAll"
  /\ Len(Before) = 2
  /\ Before[1].id = "b"
  /\ Before[2].id = "a"
  /\ prevFired = <<>>
  /\ fired = <<prevRegistry["b"], prevRegistry["a"]>>
  /\ prevRegistry["b"] # 0
  /\ prevRegistry["a"] # 0

\* C9: once every pending updater has run, the entries the hook returns are
\* those of the initial queue with all the calls applied in call order.
C9_HookRefinesQueue ==
  (mode = "hook" /\ pending = <<>>) => hookEntries = expected

C9_Witness ==
  /\ mode = "hook"
  /\ pending = <<>>
  /\ batch = 3
  /\ last.op = "remove"
  /\ last.id \in IdsOf(Before)
  /\ Len(hookEntries) = 1
  /\ hookEntries = expected

\* C10: add, remove and removeAll on a mock queue return the receiver, and
\* the entries array read from it before the call is still its entries array
\* and holds the new content.
C10_MockIdentity ==
  (last.op # "none" /\ objs[last.recv].kind = "mock") =>
    /\ last.ret = last.recv
    /\ objs[last.ret].entries = handle
    /\ arrays[handle] =
         CASE last.op = "add" -> Upserted(prevArrays[handle], last.id, last.data)
           [] last.op = "remove" -> Without(prevArrays[handle], last.id)
           [] OTHER -> <<>>

C10_Witness ==
  /\ mode = "mock"
  /\ last.op = "add"
  /\ last.ret = 1
  /\ Len(prevArrays[handle]) = 2
  /\ Len(arrays[handle]) = 3

\* C11: after any sequence of add, remove and removeAll calls the entries
\* of a mock queue equal those of the immutable queue that the same calls
\* produce from an equal initial sequence.
C11_MockRefinesImmutable ==
  mode = "mock" => arrays[objs[1].entries] = expected

C11_Witness ==
  /\ mode = "mock"
  /\ last.op = "add"
  /\ last.id \in IdsOf(prevArrays[1])
  /\ Len(expected) = 3
  /\ expected # prevArrays[1]
  /\ arrays[objs[1].entries] = expected

\* C12: a component that calls useNotificationQueue with no Provider above
\* it always gets the error 'Missing <NotificationProvider>' and never a
\* queue; under a Provider the call never raises and returns the value
\* that Provider publishes.
C12_MissingProvider ==
  /\ (mode = "outside" /\ access.called) =>
       /\ access.threw
       /\ access.error = "Missing <NotificationProvider>"
       /\ access.queue = NoBinding
  /\ mode = "hook" =>
       /\ access.called
       /\ ~access.threw
       /\ access.queue = published
       /\ access.queue # NoBinding

C12_Witness ==
  /\ mode = "outside"
  /\ access.called
  /\ access.threw
  /\ access.error = "Missing <NotificationProvider>"

\* C13: when a queue is passed to the Provider, the calls made through the
\* accessor are applied to that queue with their arguments: the first
\* updater receives the supplied queue, a supplied mock queue is the
\* receiver of every call and, once no call is pending, its entries are
\* exactly what the calls made so far produce from the initial entries.
\* When no queue is passed the Provider starts from an empty immutable
\* queue of its own.
C13_QueueInjection ==
  mode = "hook" =>
    /\ (supplied # 0 /\ nCalls - Len(pending) = 1) =>
         /\ last.recv = supplied
         /\ After = Upserted(<<>>, last.id, last.data) \/ last.op # "add"
    /\ (supplied # 0 /\ objs[supplied].kind = "mock") =>
         /\ held = supplied
         /\ last.op # "none" => last.recv = supplied /\ last.ret = supplied
         /\ pending = <<>> => arrays[objs[supplied].entries] = expected
    /\ (supplied = 0 /\ nCalls = 0) =>
         /\ objs = <<[kind |-> "immutable", entries |-> 1]>>
         /\ arrays = << <<>> >>
         /\ held = 1
         /\ published.entries = 1

C13_Witness ==
  /\ mode = "hook"
  /\ supplied # 0
  /\ objs[supplied].kind = "mock"
  /\ nCalls = 3
  /\ pending = <<>>
  /\ last.op = "remove"
  /\ Len(arrays[objs[supplied].entries]) = 1
  /\ arrays[objs[supplied].entries] = expected

\* C14: the add, remove and removeAll functions a binding returns are, on
\* every render after any calls, the functions of its first render.
C14_StableCallables ==
  mode = "hook" =>
    /\ published.add = useQueue_firstRender(0).add
    /\ published.remove = useQueue_firstRender(0).remove
    /\ published.removeAll = useQueue_firstRender(0).removeAll
    /\ access.queue.add = published.add
    /\ access.queue.remove = published.remove
    /\ access.queue.removeAll = published.removeAll

C14_Witness ==
  /\ mode = "hook"
  /\ nCalls = 3
  /\ pending = <<>>
  /\ batch = 1
  /\ published.entries = 4
  /\ published.add = useQueue_firstRender(0).add

\* The last call ran alone in its render and changed the contents of the
\* held queue.
ChangedHeld ==
  /\ mode = "hook"
  /\ pending = <<>>
  /\ batch = 1
  /\ last.op # "none"
  /\ Before # After

\* The value published by that render is a new one, whose entries array is
\* the one of the queue the call returned.
Republished ==
  /\ published.entries # objs[last.recv].entries
  /\ published.entries = objs[last.ret].entries
  /\ access.queue = published

\* C15 as stated: whenever a call changes the contents of the held queue,
\* immutable or mock, the published value changes and the consumers are
\* rendered again with the new entries.
C15_RerenderOnChange_AnyQueue ==
  /\ ChangedHeld => Republished
  /\ (mode = "hook" /\ pending = <<>>) => shown = arrays[objs[held].entries]

\* C15: whenever a call on a binding that holds an immutable queue changes
\* the contents of the held queue, the published value changes and the
\* consumers are rendered again with the new entries.
C15_RerenderOnChange ==
  /\ (ChangedHeld /\ objs[last.recv].kind = "immutable") => Republished
  /\ (mode = "hook" /\ pending = <<>> /\ objs[held].kind = "immutable") =>
       shown = arrays[objs[held].entries]

C15_Witness ==
  /\ ChangedHeld
  /\ objs[last.recv].kind = "immutable"
  /\ nCalls = 2
  /\ Republished
  /\ Len(shown) = 2
  /\ shown = After

PosOf(s, k) == CHOOSE i \in 1..Len(s) : s[i].id = k

\* C16: for every add, remove or removeAll, two ids that are in the queue
\* both before and after the call are in the same relative order after it,
\* and an add for an id already present leaves every id at its position.
C16_OrderPreserved ==
  last.op # "none" =>
    /\ \A i, j \in 1..Len(Before) :
         (i < j /\ {Before[i].id, Before[j].id} \subseteq IdsOf(After)) =>
           PosOf(After, Before[i].id) < PosOf(After, Before[j].id)
    /\ (last.op = "add" /\ last.id \in IdsOf(Before)) =>
         \A i \in 1..Len(Before) : PosOf(After, Before[i].id) = i

C16_Witness ==
  /\ last.op = "remove"
  /\ Len(Before) = 3
  /\ Before[1].id = last.id
  /\ After = <<Before[2], Before[3]>>

\* C17: remove of an id that is not in the queue leaves the entries as
\* they were, content and order, on a queue and on a binding, and on a
\* binding it invokes no removal callback and leaves the registry alone.
C17_RemoveAbsent ==
  (last.op = "remove" /\ last.id \notin IdsOf(Before)) =>
    /\ After = Before
    /\ mode = "hook" => (fired = prevFired /\ registry = prevRegistry)
    /\ (mode = "hook" /\ pending = <<>> /\ objs[held].kind = "immutable") => shown = Before

C17_Witness ==
  /\ mode = "hook"
  /\ last.op = "remove"
  /\ last.id \notin IdsOf(Before)
  /\ Len(Before) = 1
  /\ registry[Before[1].id] # 0
  /\ After = Before
  /\ fired = <<>>

\* C18: an add invokes no removal callback; an add with a callback for an
\* id that already has one registered makes the new callback the registered
\* one, a later remove of the id invokes the callback registered then and
\* only that one, and an overwritten callback is never invoked.
C18_AddOverwritesCallback ==
  mode = "hook" =>
    /\ last.op = "add" =>
         /\ fired = prevFired
         /\ lastCb # 0 => registry[last.id] = lastCb
         /\ (lastCb # 0 /\ prevRegistry[last.id] # 0) => prevRegistry[last.id] \in replaced
    /\ (last.op = "remove" /\ prevRegistry[last.id] # 0) =>
         fired = Append(prevFired, prevRegistry[last.id])
    /\ \A c \in replaced : Count(fired, c) = 0
    /\ \A k \in Ids : registry[k] \notin replaced

C18_Witness ==
  /\ mode = "hook"
  /\ last.op = "remove"
  /\ last.id = "a"
  /\ replaced = {1}
  /\ prevRegistry["a"] = 2
  /\ fired = <<2>>

Completed(r) ==
  /\ r.ret \in 1..Len(r.objs)
  /\ r.objs[r.ret].entries \in 1..Len(r.arrays)
  /\ r.arrays[r.objs[r.ret].entries] \in Seq(QueuedItem)

\* Every queue object is Newest in the state that follows its creation; an
\* immutable queue keeps its entries from then on, and the mock queue and
\* the queue a binding holds are Newest in every state.

\* C20: in every reachable state of a queue or of a binding, add with any
\* id and data, remove with any id, and removeAll complete and return a
\* queue; on a binding each of the three calls can be made, and the updater
\* React runs next completes and leaves a well-formed callback registry.
C20_Total ==
  /\ \A id \in Ids, data \in Datas : Completed(queue_add(arrays, objs, Newest, id, data))
  /\ \A id \in Ids : Completed(queue_remove(arrays, objs, Newest, id))
  /\ Completed(queue_removeAll(arrays, objs, Newest))
  /\ (mode = "hook" /\ ~flushing /\ nCalls < MaxCalls) =>
       /\ \A id \in HookIds, data \in Datas, withCb \in BOOLEAN :
            ENABLED HookAddCall(id, data, withCb)
       /\ \A id \in HookIds : ENABLED HookRemoveCall(id)
       /\ ENABLED HookRemoveAll
  /\ (mode = "hook" /\ pending # <<>>) =>
       LET u == Head(pending)
           c == RunCallbacks(u, registry, fired, arrays[objs[StateForUpdater].entries])
       IN  /\ Completed(RunQueue(u, arrays, objs, StateForUpdater))
           /\ c.registry \in [Ids -> Nat]
           /\ Len(c.fired) >= Len(fired)

C20_Witness ==
  /\ mode = "immutable"
  /\ last.op = "removeAll"
  /\ After = <<>>
  /\ Completed(queue_remove(arrays, objs, last.ret, "c"))
  /\ Completed(queue_removeAll(arrays, objs, last.ret))
  /\ Completed(queue_add(arrays, objs, last.ret, "c", "x"))

\* The calls of the script that have been made and have run.
ScriptDone == 5 - Len(script.todo) - Len(pending)

\* The entries of the queue the script has arrived at.
ScriptEntries == arrays[objs[IF mode = "hook" THEN held ELSE Newest].entries]

\* C21: from the empty queue, add('a', x) gives [a:x]; add('b', y) gives
\* length 2; add('a', z) keeps length 2 with a:z first; remove('a') gives
\* [b:y]; removeAll() gives the empty sequence.
C21_Scenario ==
  script # NoScript =>
    LET x == script.data[1]
        y == script.data[2]
        z == script.data[3]
    IN  /\ ScriptDone = 0 => ScriptEntries = <<>>
        /\ ScriptDone = 1 => ScriptEntries = <<Item("a", x)>>
        /\ ScriptDone = 2 => Len(ScriptEntries) = 2
        /\ ScriptDone = 3 => Len(ScriptEntries) = 2 /\ ScriptEntries[1] = Item("a", z)
        /\ ScriptDone = 4 => ScriptEntries = <<Item("b", y)>>
        /\ ScriptDone = 5 => ScriptEntries = <<>>
        /\ (mode = "hook" /\ pending = <<>>) => hookEntries = ScriptEntries

C21_Witness ==
  /\ mode = "hook"
  /\ objs[held].kind = "immutable"
  /\ script.data = <<"x", "y", "z">>
  /\ ScriptDone = 4
  /\ pending = <<>>
  /\ hookEntries = <<Item("b", "y")>>

\* C22: for every queue, one built from an array its caller supplied
\* included, and every id, remove returns entries of the same length or
\* exactly one entry fewer.
C22_RemoveDropsAtMostOne ==
  last.op = "remove" => Len(After) \in {Len(Before), Len(Before) - 1}

\* C23: the entries of an immutable queue never change once it exists,
\* whatever is done to the queues derived from it or to the array it was
\* built from, and no two immutable queues have the same array as entries.
C23_SnapshotOwnership ==
  /\ \A o \in 1..Len(objs) :
       (objs[o].kind = "immutable" /\ objs[o].entries <= Len(prevArrays)) =>
         arrays[objs[o].entries] = prevArrays[objs[o].entries]
  /\ \A o1, o2 \in 1..Len(objs) :
       (objs[o1].kind = "immutable" /\ objs[o2].kind = "immutable" /\ o1 # o2) =>
         objs[o1].entries # objs[o2].entries

\* The timer that fired last (timers fire oldest first).
LastTimer == CHOOSE t \in 1..Len(timers) : timers[t].done /\ \A s \in (t + 1)..Len(timers) : ~timers[s].done

\* C24: a callable obtained at an earlier render and invoked after other
\* mutations (the remove captured by a timer, fired after a later add)
\* operates on the queue as it is when it is invoked: its updater receives
\* the currently held queue, not the one of the render it was made in, and
\* the result is the removal applied to what all calls so far have left,
\* so no intervening mutation is reverted or lost.
C24_StaleCallable ==
  (timers # <<>> /\ last.op = "remove" /\ pending = <<>> /\ Len(timers) > LastTimer)
    => /\ last.recv # timers[LastTimer].seen
       /\ last.ret = held
       /\ After = expected
       /\ hookEntries = expected

C24_Witness ==
  /\ timers # <<>> /\ last.op = "remove" /\ pending = <<>>
  /\ Len(timers) > LastTimer
  /\ Before # arrays[objs[timers[LastTimer].seen].entries]
  /\ After # <<>>

\* C25: after any sequence of calls from the empty queue, the entries are
\* exactly the ids brought in and not removed since, and id a precedes id b
\* exactly when the add that most recently brought a in (while absent) was
\* made before the one that brought b in; an id removed and added again is
\* therefore last.
C25_InsertionOrder ==
  ops > 0 =>
    LET e == arrays[objs[Newest].entries]
    IN  /\ IdsOf(e) = {k \in Ids : born[k] # 0}
        /\ \A i, j \in 1..Len(e) : (i < j) <=> (born[e[i].id] < born[e[j].id])

C25_Witness ==
  /\ ops > 0
  /\ last.op = "add"
  /\ last.id \notin IdsOf(Before)
  /\ mode = "immutable"
  /\ \E a \in 1..(objs[last.recv].entries - 1) : last.id \in IdsOf(arrays[a])
  /\ Len(After) = 2
  /\ After[2].id = last.id
  /\ born[last.id] = ops
  /\ ops >= 4

\* The callbacks invoked by the last call.
NewlyFired == {fired[i] : i \in (Len(prevFired) + 1)..Len(fired)}

\* The callbacks passed to add before the removeAll() that is n-th from last.
ClearedBy(n) == IF Len(clearedAt) > n THEN clearedAt[Len(clearedAt) - n] ELSE 0

\* C26: after removeAll() on a binding no callback registered before it is
\* registered any more, and none is invoked by a later remove or removeAll,
\* also when its id has been added again without a callback.
C26_RemoveAllClearsRegistry ==
  (mode = "hook" /\ pending = <<>>) =>
    /\ \A k \in Ids : registry[k] = 0 \/ registry[k] > ClearedBy(0)
    /\ \A c \in NewlyFired : c > (IF last.op = "removeAll" THEN ClearedBy(1) ELSE ClearedBy(0))

C26_Witness ==
  /\ mode = "hook" /\ pending = <<>>
  /\ last.op = "remove"
  /\ last.id \in IdsOf(Before)
  /\ ClearedBy(0) > 0
  /\ nextCb = ClearedBy(0) + 1
  /\ fired # <<>>
  /\ NewlyFired = {}

\* C27: in every reachable state of a binding, every id with a registered
\* removal callback is the id of an entry of the queue it holds.
C27_RegistryWithinQueue ==
  mode = "hook" =>
    \A k \in Ids : registry[k] # 0 => k \in IdsOf(arrays[objs[held].entries])

C27_Witness ==
  /\ mode = "hook"
  /\ last.op \in {"remove", "removeAll"}
  /\ prevRegistry # NoCallbacks
  /\ registry # prevRegistry
  /\ \E k \in Ids : registry[k] # 0

\* The last updater run was an add.
AddRan == mode = "hook" /\ last.op = "add"

\* The consumers were rendered once for the last call: the call was the only
\* one of its render, which published a new value with the entries of the
\* queue the call returned.
RenderedOnce ==
  /\ ~flushing
  /\ batch = 1
  /\ rendered = last.ret
  /\ Republished
  /\ shown = After

\* C28 as stated: each add on a binding, whatever queue it holds and however
\* it is called, causes exactly one render of the consumers.
C28_OneRenderPerAdd_Any == AddRan => RenderedOnce

\* C28: an add on a binding that holds an immutable queue, made alone in its
\* event, causes exactly one render of the consumers, for every queue state
\* and whether the id is new or already present.
C28_OneRenderPerAdd ==
  (AddRan /\ objs[last.recv].kind = "immutable" /\ ~flushing /\ batch = 1) =>
    /\ rendered = last.ret
    /\ published.entries # objs[last.recv].entries
    /\ published.entries = objs[last.ret].entries
    /\ access.queue = published
    /\ shown = After

C28_Witness ==
  /\ AddRan /\ objs[last.recv].kind = "immutable" /\ ~flushing /\ batch = 1
  /\ pending = <<>>
  /\ last.id \in IdsOf(Before)
  /\ Before = After
  /\ RenderedOnce

\* The entries of the queue the binding holds.
heldEntries == arrays[objs[held].entries]

\* C29: in the example's timer pattern every notification added is
\* eventually removed, by its own timer or earlier by clearAll, provided a
\* started timer that is not cleared eventually fires.
C29_AutoDismiss ==
  \A k \in Ids : (k \in IdsOf(heldEntries)) ~> (k \notin IdsOf(heldEntries))

C29_Witness ==
  /\ timers # <<>>
  /\ last.op = "remove"
  /\ last.id \in IdsOf(Before)
  /\ timers[LastTimer].id = last.id
  /\ heldEntries = <<>>
  /\ clicks = MaxClicks
  /\ \A t \in 1..Len(timers) : ~Live(t)

\* C30: once an entry has been removed by remove(id) or removeAll its timer
\* is cleared: no live timer is left for an id that is not in the queue, and
\* no timer calls remove for an id whose entry was already removed.
C30_TimerCancelled ==
  /\ (timers # <<>> /\ pending = <<>>) =>
       \A t \in 1..Len(timers) : Live(t) => timers[t].id \in IdsOf(heldEntries)
  /\ (timers # <<>> /\ last.op = "remove") => last.id \in IdsOf(Before)

\* C31: a timer belongs to its own add. When a timer's remove(id) takes an
\* entry out of the queue, the entry is the one written by the add that
\* started this timer: the callback registered for the id, which the latest
\* add of the id passed, clears this very timer.
C31_TimerOwnsEntry ==
  (timers # <<>> /\ last.op = "remove" /\ pending = <<>> /\ last.id \in IdsOf(Before))
    => prevRegistry[last.id] = LastTimer

\* Both calls of a pair have been made.
PairDone == script # NoScript /\ script.todo = <<>> /\ Len(script.data) = 2

\* C32: for every queue Q with unique ids and every id k not in Q,
\* Q.add(k, d).remove(k) has the entries of Q, in the same order.
C32_AddRemoveRoundTrip ==
  (PairDone /\ script.data[1].op = "add" /\ script.data[2].op = "remove") =>
    /\ last.id = script.data[1].id
    /\ Before = Append(expected, Item(last.id, script.data[1].data))
    /\ After = expected
    /\ arrays[objs[Newest].entries] = expected

C32_Witness ==
  /\ PairDone /\ script.data[1].op = "add" /\ script.data[2].op = "remove"
  /\ mode = "immutable"
  /\ Len(expected) = 2
  /\ Len(Before) = 3
  /\ After = expected

\* C33: for every queue, id and data, add(k, d) made twice gives the entries
\* of add(k, d) made once, and the same for remove(k) and for removeAll().
C33_Idempotent ==
  (PairDone /\ script.data[1] = script.data[2]) =>
    /\ After = Before
    /\ arrays[objs[Newest].entries] = Before

C33_Witness ==
  /\ PairDone /\ script.data[1] = script.data[2]
  /\ last.op = "add"
  /\ ~HasUniqueIds(expected)
  /\ Before # expected
  /\ After = Before

\* C34: a render of the Provider by its parent, also one that passes a
\* different queue prop, neither resets nor replaces the held queue: the
\* binding holds the same queue object with the same entries, those the
\* calls made so far have produced, and publishes the same value.
C34_HeldOnlyChangedByCalls ==
  (mode = "hook" /\ last.op = "render") =>
    /\ last.ret = last.recv
    /\ held = last.recv
    /\ After = Before
    /\ published.entries = objs[held].entries
    /\ pending = <<>> => (heldEntries = expected /\ hookEntries = expected)

C34_Witness ==
  /\ mode = "hook" /\ last.op = "render"
  /\ nCalls > 0
  /\ pending = <<>>
  /\ heldEntries # <<>>
  /\ Len(objs) > held
  /\ arrays[objs[Len(objs)].entries] # heldEntries
  /\ arrays[objs[Len(objs)].entries] # <<>>

\* The entries of instance i now, and before the last call.
InstanceEntries(i) == arrays[objs[instances[i].obj].entries]
InstanceEntriesBefore(i) == prevArrays[objs[instances[i].obj].entries]

\* C35: two queues made separately without an initial sequence share no
\* state: a call on one leaves the entries of the other as they were, and
\* after any sequence of calls each has the entries its own calls produce.
C35_IndependentInstances ==
  instances # <<>> =>
    /\ objs[instances[1].obj].entries # objs[instances[2].obj].entries
    /\ \A i \in {1, 2} : InstanceEntries(i) = instances[i].expected
    /\ \A i \in {1, 2} :
         (last.op # "none" /\ instances[i].obj # last.ret) =>
           InstanceEntries(i) = InstanceEntriesBefore(i)

C35_Witness ==
  /\ instances # <<>>
  /\ mode = "mock"
  /\ ops = MaxOps
  /\ last.op = "add"
  /\ last.ret = instances[1].obj
  /\ Len(InstanceEntries(1)) = 2
  /\ InstanceEntries(2) = <<Item("b", "x")>>

====
